---------------------------- MODULE Spec2Model ----------------------------
(***************************************************************************)
(* The hotel-suggestion tool of examples/mcp_server_basic.py: the date     *)
(* validation of validate_iso_date, and suggest_hotels, which validates    *)
(* check_in and check_out, draws a list of hotels from the process-wide    *)
(* random generator, sorts it by rating and returns it.                    *)
(*                                                                         *)
(* Strings that the code inspects character by character (the two date     *)
(* parameters) are sequences of one-character strings.  Decimal numbers    *)
(* are fixed-point integers counted in units of 1/Scale.                   *)
(***************************************************************************)
EXTENDS Integers, Sequences, FiniteSets, TLC

(***************************************************************************)
(* Bounds of the model.                                                    *)
(***************************************************************************)
\* Init draws the seed of each generator from 0 .. NumSeeds - 1.
NumSeeds == 16
\* The server answers at most MaxCalls invocations in a run.
MaxCalls == 2

(***************************************************************************)
(* Characters and the date strings handed to the tool.                     *)
(***************************************************************************)
Digits == {"0", "1", "2", "3", "4", "5", "6", "7", "8", "9"}

IsDigit(c) == c \in Digits

DigitVal(c) ==
  CASE c = "0" -> 0 [] c = "1" -> 1 [] c = "2" -> 2 [] c = "3" -> 3
    [] c = "4" -> 4 [] c = "5" -> 5 [] c = "6" -> 6 [] c = "7" -> 7
    [] c = "8" -> 8 [] c = "9" -> 9

\* Well-formed strings that name a date of the calendar.
RealDateInputs ==
  { <<"2","0","2","4","-","0","5","-","0","8">>,
    <<"2","0","2","4","-","0","5","-","1","0">>,
    <<"2","0","2","4","-","0","5","-","1","2">>,
    <<"2","0","2","4","-","0","2","-","2","9">>,
    <<"2","0","2","4","-","0","3","-","0","1">>,
    <<"2","0","2","3","-","1","2","-","3","1">>,
    <<"2","0","0","0","-","0","2","-","2","9">> }

\* Strings of ten digits and dashes in the right places that name no date,
\* and one that carries a trailing line feed.
UnrealDateInputs ==
  { <<"2","0","2","4","-","0","2","-","3","0">>,
    <<"1","9","0","0","-","0","2","-","2","9">>,
    <<"2","0","2","4","-","1","3","-","0","1">>,
    <<"2","0","2","4","-","0","5","-","0","0">>,
    <<"2","0","2","4","-","0","5","-","3","2">>,
    <<"0","0","0","0","-","0","1","-","0","1">>,
    <<"2","0","2","4","-","0","5","-","1","0","\n">> }

\* Strings in another layout.
MalformedInputs ==
  { <<"0","5","-","1","0","-","2","0","2","4">>,
    <<"2","0","2","4","/","0","5","/","1","0">>,
    <<"2","0","2","4","-","5","-","1","0">>,
    <<"2","0","2","4","-","0","5","-","1","x">>,
    << >> }

DateInputs == RealDateInputs \cup UnrealDateInputs \cup MalformedInputs

LocationInputs == {"Paris", "Tokyo"}

(***************************************************************************)
(* validate_iso_date: the pattern, then datetime.strptime.                 *)
(***************************************************************************)
\* re.compile(r"^\d{4}-\d{2}-\d{2}$").match(date_str): "$" matches at the
\* end of the string and also just before a line feed that ends it.
IsoPatternMatch(s) ==
  /\ \/ Len(s) = 10
     \/ Len(s) = 11 /\ s[11] = "\n"
  /\ \A i \in {1, 2, 3, 4, 6, 7, 9, 10} : IsDigit(s[i])
  /\ s[5] = "-"
  /\ s[8] = "-"

\* The directive %m of strptime, the pattern 1[0-2]|0[1-9]|[1-9] tried at
\* position i: whether its two-character alternatives match there, and
\* whether its one-character alternative does.
MonthTwo(s, i) ==
  /\ i + 1 <= Len(s)
  /\ \/ s[i] = "1" /\ s[i + 1] \in {"0", "1", "2"}
     \/ s[i] = "0" /\ IsDigit(s[i + 1]) /\ s[i + 1] # "0"

MonthOne(s, i) == i <= Len(s) /\ IsDigit(s[i]) /\ s[i] # "0"

\* The directive %d, the pattern 3[0-1]|[1-2]\d|0[1-9]|[1-9]| [1-9].
DayTwo(s, i) ==
  /\ i + 1 <= Len(s)
  /\ \/ s[i] = "3" /\ s[i + 1] \in {"0", "1"}
     \/ s[i] \in {"1", "2"} /\ IsDigit(s[i + 1])
     \/ s[i] = "0" /\ IsDigit(s[i + 1]) /\ s[i + 1] # "0"
     \/ s[i] = " " /\ IsDigit(s[i + 1]) /\ s[i + 1] # "0"

DayOne(s, i) == i <= Len(s) /\ IsDigit(s[i]) /\ s[i] # "0"

\* The length %d matches at position i: the first alternative that matches
\* (nothing has to follow the day), 0 when none does.
DayLength(s, i) == IF DayTwo(s, i) THEN 2 ELSE IF DayOne(s, i) THEN 1 ELSE 0

\* Whether a month of ml characters at position 6 is followed by a dash and
\* a day.
MonthFits(s, ml) ==
  /\ 6 + ml <= Len(s)
  /\ s[6 + ml] = "-"
  /\ DayLength(s, 7 + ml) > 0

\* The length %m matches at position 6: the first alternative after which
\* the rest of the pattern matches, 0 when the pattern does not match.
MonthLength(s) ==
  IF MonthTwo(s, 6) /\ MonthFits(s, 2) THEN 2
  ELSE IF MonthOne(s, 6) /\ MonthFits(s, 1) THEN 1
  ELSE 0

\* The number written by the digits s[i] .. s[i + n - 1] (a blank counts 0).
RECURSIVE NumberAt(_, _, _)
NumberAt(s, i, n) ==
  IF n = 0 THEN 0
  ELSE 10 * NumberAt(s, i, n - 1)
         + (IF IsDigit(s[i + n - 1]) THEN DigitVal(s[i + n - 1]) ELSE 0)

IsLeap(y) == y % 4 = 0 /\ (y % 100 # 0 \/ y % 400 = 0)

DaysInMonth(y, m) ==
  IF m = 2 THEN (IF IsLeap(y) THEN 29 ELSE 28)
  ELSE IF m \in {4, 6, 9, 11} THEN 30 ELSE 31

NoDate == <<0, 0, 0>>

Parsed(d) == [ok |-> TRUE, date |-> d, reason |-> "", embedded |-> << >>]

ParseError(why, emb) ==
  [ok |-> FALSE, date |-> NoDate, reason |-> why, embedded |-> emb]

\* MakeDate without the check of the day against the month.
MakeDate_any_day(y, m, d) ==
  IF y < 1 THEN ParseError("year is out of range", << >>)
  ELSE Parsed(<<y, m, d>>)

\* The date built from the year, month and day that were matched:
\* datetime.date refuses the year 0 and a day the month does not have.
MakeDate(y, m, d) ==
  IF y < 1 THEN ParseError("year is out of range", << >>)
  ELSE IF d > DaysInMonth(y, m)
  THEN ParseError("day is out of range for month", << >>)
  ELSE Parsed(<<y, m, d>>)

\* The match of a month of ml and a day of dl characters: text after the
\* match is an error.
ConvertMatch(s, ml, dl) ==
  IF Len(s) # 6 + ml + dl
  THEN ParseError("unconverted data remains",
                  <<SubSeq(s, 7 + ml + dl, Len(s))>>)
  ELSE MakeDate(NumberAt(s, 1, 4), NumberAt(s, 6, ml),
                NumberAt(s, 7 + ml, dl))

\* datetime.strptime(date_str, "%Y-%m-%d").date(): the format's pattern
\* (\d\d\d\d)-(%m)-(%d) is matched at the start of the string.  embedded
\* lists the pieces of the input that the error text quotes.
Strptime(s) ==
  IF /\ Len(s) >= 5
     /\ \A i \in 1..4 : IsDigit(s[i])
     /\ s[5] = "-"
     /\ MonthLength(s) > 0
  THEN ConvertMatch(s, MonthLength(s), DayLength(s, 7 + MonthLength(s)))
  ELSE ParseError("does not match format", <<s>>)

\* A raised ValueError: the statement that raised it, the parameter names
\* its text spells out, and the received values its text quotes.
ValueError(site, names, emb, why) ==
  [site |-> site, names |-> names, embedded |-> emb, reason |-> why]

NoError == ValueError("none", << >>, << >>, "")

Returned(d) == [raised |-> FALSE, date |-> d, error |-> NoError]

Raised(e) == [raised |-> TRUE, date |-> NoDate, error |-> e]

\* validate_iso_date with the pattern as its only check.
validate_iso_date_pattern_only(date_str, param_name) ==
  IF ~IsoPatternMatch(date_str)
  THEN Raised(ValueError("iso_pattern", <<param_name>>, <<date_str>>,
                         "must be in ISO format (YYYY-MM-DD)"))
  ELSE Returned(<<NumberAt(date_str, 1, 4), NumberAt(date_str, 6, 2),
                  NumberAt(date_str, 9, 2)>>)

\* validate_iso_date with a pattern error that leaves the value out.
validate_iso_date_no_value(date_str, param_name) ==
  IF ~IsoPatternMatch(date_str)
  THEN Raised(ValueError("iso_pattern", <<param_name>>, << >>,
                         "must be in ISO format (YYYY-MM-DD)"))
  ELSE LET p == Strptime(date_str)
       IN  IF p.ok THEN Returned(p.date)
           ELSE Raised(ValueError("strptime", <<param_name>>,
                                  p.embedded, p.reason))

\* def validate_iso_date(date_str, param_name)
validate_iso_date(date_str, param_name) ==
  IF ~IsoPatternMatch(date_str)
  THEN Raised(ValueError("iso_pattern", <<param_name>>, <<date_str>>,
                         "must be in ISO format (YYYY-MM-DD)"))
  ELSE LET p == Strptime(date_str)
       IN  IF p.ok THEN Returned(p.date)
           ELSE Raised(ValueError("strptime", <<param_name>>,
                                  p.embedded, p.reason))

\* The comparison without equality.
DateLT(a, b) ==
  \/ a[1] < b[1]
  \/ a[1] = b[1] /\ a[2] < b[2]
  \/ a[1] = b[1] /\ a[2] = b[2] /\ a[3] < b[3]

\* check_out_date <= check_in_date on datetime.date values.
DateLE(a, b) ==
  \/ a[1] < b[1]
  \/ a[1] = b[1] /\ a[2] < b[2]
  \/ a[1] = b[1] /\ a[2] = b[2] /\ a[3] <= b[3]


(***************************************************************************)
(* The random module.  The generator is a hidden state that every draw     *)
(* advances; it is modelled as a full-period linear congruential generator *)
(* over 0 .. Modulus - 1.  random() is the new state divided by Modulus.   *)
(***************************************************************************)
Modulus == 10000

\* One unit of a decimal number is 1/Scale.
Scale == Modulus

RngNext(s) == (4821 * s + 1237) % Modulus

\* random._randbelow(n), read from the state s the draw has produced.
RandBelow(s, n) == (s * n) \div Modulus

\* random.randint(a, b), read from the state s the draw has produced.
RandInt(s, a, b) == a + RandBelow(s, b - a + 1)

\* random.uniform(a, b) = a + (b - a) * random(), in units of 1/Scale.
Uniform(s, a, b) == a * Scale + (b - a) * s

\* round(x, ndigits) on a number x >= 0 counted in units of 1/Scale, to a
\* multiple of unit; a tie goes to the even multiple.
RoundTo(x, unit) ==
  LET q == x \div unit
      r == x % unit
  IN  IF 2 * r > unit \/ (2 * r = unit /\ q % 2 = 1)
      THEN (q + 1) * unit
      ELSE q * unit

\* k draws from a pool that keeps the entry it has given out.
RECURSIVE Sample_with_replacement(_, _, _)
Sample_with_replacement(pool, k, s) ==
  IF k = 0 THEN [items |-> << >>, rng |-> s]
  ELSE LET s1 == RngNext(s)
           j == RandBelow(s1, Len(pool)) + 1
           rest == Sample_with_replacement(pool, k - 1, s1)
       IN  [items |-> <<pool[j]>> \o rest.items, rng |-> rest.rng]

\* random.sample(population, k) for a population of at most 21 entries: k
\* draws from a pool whose chosen entry is overwritten by the last one.
\* s is the generator state before the first draw.
RECURSIVE Sample(_, _, _)
Sample(pool, k, s) ==
  IF k = 0 THEN [items |-> << >>, rng |-> s]
  ELSE LET s1 == RngNext(s)
           n == Len(pool)
           j == RandBelow(s1, n) + 1
           rest == Sample(SubSeq([pool EXCEPT ![j] = pool[n]], 1, n - 1),
                          k - 1, s1)
       IN  [items |-> <<pool[j]>> \o rest.items, rng |-> rest.rng]

(***************************************************************************)
(* suggest_hotels: the data it draws from.                                 *)
(***************************************************************************)
\* The types with every key of the price table among them.
hotel_types_with_resort ==
  <<"Luxury", "Boutique", "Budget", "Resort", "Business">>

hotel_types == <<"Luxury", "Boutique", "Budget", "Business">>

amenities ==
  <<"Free WiFi", "Pool", "Spa", "Gym", "Restaurant", "Bar", "Room Service",
    "Parking">>

neighborhoods ==
  <<"Downtown", "Historic District", "Waterfront", "Business District",
    "Arts District", "University Area">>

name_nouns == <<"Hotel", "Inn", "Suites", "Resort", "Plaza">>

\* The price table with the key of Boutique misspelt.
price_ranges_misspelt_key(hotel_type) ==
  CASE hotel_type = "Luxury" -> <<250, 600>>
    [] hotel_type = "Boutiqe" -> <<180, 350>>
    [] hotel_type = "Budget" -> <<80, 150>>
    [] hotel_type = "Resort" -> <<200, 500>>
    [] hotel_type = "Business" -> <<150, 300>>
    [] OTHER -> <<100, 300>>

\* The price table without its entry for Business.
price_ranges_no_business(hotel_type) ==
  CASE hotel_type = "Luxury" -> <<250, 600>>
    [] hotel_type = "Boutique" -> <<180, 350>>
    [] hotel_type = "Budget" -> <<80, 150>>
    [] hotel_type = "Resort" -> <<200, 500>>
    [] OTHER -> <<100, 300>>

\* price_ranges.get(hotel_type, (100, 300))
price_ranges(hotel_type) ==
  CASE hotel_type = "Luxury" -> <<250, 600>>
    [] hotel_type = "Boutique" -> <<180, 350>>
    [] hotel_type = "Budget" -> <<80, 150>>
    [] hotel_type = "Resort" -> <<200, 500>>
    [] hotel_type = "Business" -> <<150, 300>>
    [] OTHER -> <<100, 300>>

\* round(random.uniform(3.0, 5.0), 1), in units of 1/Scale.
generate_rating(s) == RoundTo(Uniform(s, 3, 5), Scale \div 10)

\* round(random.uniform(min_price, max_price)), in units of 1/Scale.
generate_price(hotel_type, s) ==
  LET r == price_ranges(hotel_type)
  IN  RoundTo(Uniform(s, r[1], r[2]), Scale)

\* fake.street_address(): Faker draws from a generator of its own; the
\* address is named by the state that draw leaves.
street_address(f) == RngNext(f)

\* The loop body with a listing located by its neighborhood alone.
make_hotel_neighborhood_only(location, s, f) ==
  LET s1 == RngNext(s)
      hotel_type == hotel_types[RandBelow(s1, Len(hotel_types)) + 1]
      s2 == RngNext(s1)
      picked == Sample(amenities, RandInt(s2, 3, 6), s2)
      s3 == RngNext(picked.rng)
      neighborhood == neighborhoods[RandBelow(s3, Len(neighborhoods)) + 1]
      s4 == RngNext(s3)
      s5 == RngNext(s4)
      s6 == RngNext(s5)
      s7 == RngNext(s6)
      f1 == street_address(f)
  IN  [hotel |->
         [name |-> <<hotel_type, " ", name_nouns[RandInt(s4, 0, 4) + 1]>>,
          address |-> f1,
          location |-> <<neighborhood>>,
          rating |-> generate_rating(s5),
          price_per_night |-> generate_price(hotel_type, s6),
          hotel_type |-> hotel_type,
          amenities |-> picked.items,
          available_rooms |-> RandInt(s7, 1, 15)],
       rng |-> s7,
       fake |-> f1]

\* One pass of the loop body: the draws in the order the code makes them.
\* s and f are the states of random and of Faker before the pass.
make_hotel(location, s, f) ==
  LET s1 == RngNext(s)                       \* random.choice(hotel_types)
      hotel_type == hotel_types[RandBelow(s1, Len(hotel_types)) + 1]
      s2 == RngNext(s1)                      \* random.randint(3, 6)
      picked == Sample(amenities, RandInt(s2, 3, 6), s2)
      s3 == RngNext(picked.rng)              \* random.choice(neighborhoods)
      neighborhood == neighborhoods[RandBelow(s3, Len(neighborhoods)) + 1]
      s4 == RngNext(s3)                      \* random.randint(0, 4)
      s5 == RngNext(s4)                      \* generate_rating()
      s6 == RngNext(s5)                      \* generate_price(hotel_type)
      s7 == RngNext(s6)                      \* random.randint(1, 15)
      f1 == street_address(f)
  IN  [hotel |->
         [name |-> <<hotel_type, " ", name_nouns[RandInt(s4, 0, 4) + 1]>>,
          address |-> f1,
          location |-> <<neighborhood, ", ", location>>,
          rating |-> generate_rating(s5),
          price_per_night |-> generate_price(hotel_type, s6),
          hotel_type |-> hotel_type,
          amenities |-> picked.items,
          available_rooms |-> RandInt(s7, 1, 15)],
       rng |-> s7,
       fake |-> f1]

\* for i in range(num_hotels): ... hotels.append(hotel)
RECURSIVE generate_hotels(_, _, _, _)
generate_hotels(n, location, s, f) ==
  IF n = 0 THEN [hotels |-> << >>, rng |-> s, fake |-> f]
  ELSE LET h == make_hotel(location, s, f)
           rest == generate_hotels(n - 1, location, h.rng, h.fake)
       IN  [hotels |-> <<h.hotel>> \o rest.hotels,
            rng |-> rest.rng, fake |-> rest.fake]

\* A sort that keeps one hotel of each rating.
RECURSIVE sort_by_rating_one_per_rating(_)
sort_by_rating_one_per_rating(hs) ==
  IF hs = << >> THEN << >>
  ELSE LET sorted == sort_by_rating_one_per_rating(SubSeq(hs, 1, Len(hs) - 1))
           h == hs[Len(hs)]
           before == Cardinality({i \in 1..Len(sorted) :
                                    sorted[i].rating >= h.rating})
       IN  IF \E i \in 1..Len(sorted) : sorted[i].rating = h.rating
           THEN sorted
           ELSE SubSeq(sorted, 1, before) \o <<h>>
                  \o SubSeq(sorted, before + 1, Len(sorted))

\* A sort by rating in which hotels of equal rating go by address.
RECURSIVE sort_by_rating_then_address(_)
sort_by_rating_then_address(hs) ==
  IF hs = << >> THEN << >>
  ELSE LET sorted == sort_by_rating_then_address(SubSeq(hs, 1, Len(hs) - 1))
           h == hs[Len(hs)]
           before == Cardinality({i \in 1..Len(sorted) :
                                    \/ sorted[i].rating > h.rating
                                    \/ /\ sorted[i].rating = h.rating
                                       /\ sorted[i].address <= h.address})
       IN  SubSeq(sorted, 1, before) \o <<h>>
             \o SubSeq(sorted, before + 1, Len(sorted))

\* The list as it was appended, left unsorted.
sort_by_rating_skipped(hs) == hs

\* hotels.sort(key=lambda x: x.rating, reverse=True): a stable sort, so
\* hotels of equal rating keep the order in which they were appended.
RECURSIVE sort_by_rating(_)
sort_by_rating(hs) ==
  IF hs = << >> THEN << >>
  ELSE LET sorted == sort_by_rating(SubSeq(hs, 1, Len(hs) - 1))
           h == hs[Len(hs)]
           \* h goes behind every hotel rated at least as high
           before == Cardinality({i \in 1..Len(sorted) :
                                    sorted[i].rating >= h.rating})
       IN  SubSeq(sorted, 1, before) \o <<h>>
             \o SubSeq(sorted, before + 1, Len(sorted))

\* A failure that is raised after one number has been drawn.
Failure_after_draw(e, s, f) ==
  [raised |-> TRUE, error |-> e, hotels |-> << >>, rng |-> RngNext(s),
   fake |-> f]

\* A raise statement ends the call: nothing is returned and no generator
\* has been touched.
Failure(e, s, f) ==
  [raised |-> TRUE, error |-> e, hotels |-> << >>, rng |-> s, fake |-> f]

\* The range error with a text that names check_out alone.
RangeError_one_name ==
  ValueError("range", <<"check_out">>, << >>, "date must be after")

\* ValueError("check_out date must be after check_in date")
RangeError ==
  ValueError("range", <<"check_out", "check_in">>, << >>,
             "date must be after")

\* A hotel count drawn from 3 .. 9.
num_hotels_wide(s) == RandInt(s, 3, 9)

\* random.randint(3, 8), read from the state s the draw has produced.
num_hotels(s) == RandInt(s, 3, 8)

\* What follows the validation: the count, the loop, the sort, the return.
generate(location, s, f) ==
  LET s1 == RngNext(s)
      gen == generate_hotels(num_hotels(s1), location, s1, f)
  IN  [raised |-> FALSE, error |-> NoError,
       hotels |-> sort_by_rating(gen.hotels),
       rng |-> gen.rng, fake |-> gen.fake]

\* suggest_hotels with the pattern checked on both parameters before either
\* is parsed.
suggest_hotels_patterns_first(location, check_in, check_out, s, f) ==
  LET check_in_date == validate_iso_date(check_in, "check_in")
      check_out_date == validate_iso_date(check_out, "check_out")
  IN  IF check_in_date.raised /\ check_in_date.error.site = "iso_pattern"
      THEN Failure(check_in_date.error, s, f)
      ELSE IF check_out_date.raised
                /\ check_out_date.error.site = "iso_pattern"
      THEN Failure(check_out_date.error, s, f)
      ELSE IF check_in_date.raised THEN Failure(check_in_date.error, s, f)
      ELSE IF check_out_date.raised THEN Failure(check_out_date.error, s, f)
      ELSE IF DateLE(check_out_date.date, check_in_date.date)
      THEN Failure(RangeError, s, f)
      ELSE generate(location, s, f)

\* suggest_hotels with check_out validated before check_in.
suggest_hotels_check_out_first(location, check_in, check_out, s, f) ==
  LET check_in_date == validate_iso_date(check_in, "check_in")
      check_out_date == validate_iso_date(check_out, "check_out")
  IN  IF check_out_date.raised THEN Failure(check_out_date.error, s, f)
      ELSE IF check_in_date.raised THEN Failure(check_in_date.error, s, f)
      ELSE IF DateLE(check_out_date.date, check_in_date.date)
      THEN Failure(RangeError, s, f)
      ELSE generate(location, s, f)

\* The whole tool call.  s and f are the generator states before the call;
\* the result carries the states after it.
suggest_hotels(location, check_in, check_out, s, f) ==
  LET check_in_date == validate_iso_date(check_in, "check_in")
      check_out_date == validate_iso_date(check_out, "check_out")
  IN  IF check_in_date.raised THEN Failure(check_in_date.error, s, f)
      ELSE IF check_out_date.raised THEN Failure(check_out_date.error, s, f)
      ELSE IF DateLE(check_out_date.date, check_in_date.date)
      THEN Failure(RangeError, s, f)
      ELSE generate(location, s, f)

(***************************************************************************)
(* The server process.                                                     *)
(***************************************************************************)
VARIABLES
  rng,       \* the state of the random module's generator
  fakeRng,   \* the state of Faker's generator
  calls,     \* tool calls answered so far
  request,   \* the arguments of the call being answered, or NoRequest
  response   \* what that call returned or raised, or NoResponse

\* A second execution of the server, for comparing two executions that
\* get the same calls.
VARIABLES
  twinRng,       \* the state of its random module's generator
  twinFakeRng,   \* the state of its Faker's generator
  twinResponse   \* what its call returned or raised, or NoResponse

\* Tool calls that are in the server at the same time, one per client.
VARIABLES
  invocations,   \* per client: the arguments of its call and how far it is
  returned       \* per client: what its call returned or raised

\* process_linkedin_invitations (examples/openai_mcp.py): its local
\* variables and the page of the browser it drives.
VARIABLES
  pc,                     \* the statement the coroutine is at
  page,                   \* which invitation the page lists first
  clicked,                \* the buttons clicked on the page so far
  invitation_cards,       \* the number of cards the last query returned
  last_processed_index,
  index,                  \* the position of the for loop
  processed_count,
  results

\* The run of the graph of examples/langgraph_agent.py.
VARIABLES
  messages,      \* state["messages"]
  next_node,     \* the node the graph runs next
  run_status,    \* whether the run is going, interrupted or finished
  model_calls    \* the number of times the model has been invoked

\* The run of the agent of examples/langchainv1_mcp_github.py.
VARIABLES
  history,         \* state["messages"]
  request_tools,   \* the tools of the model request issued last
  agent_node       \* the node the agent runs next

\* main of examples/pydanticai_supervisor.py.  Its random module's
\* generator is rng.
VARIABLES
  main_pc,         \* the statement main is at
  triage_output,   \* triage.output, once triage_agent.run has returned
  started,         \* the agents whose run has been called, in order
  weather          \* what get_weather has returned in the weather agent's run

serverVars == <<rng, fakeRng, calls, request, response>>

twinVars == <<twinRng, twinFakeRng, twinResponse>>

concVars == <<invocations, returned>>

linkedinVars ==
  <<pc, page, clicked, invitation_cards, last_processed_index, index,
    processed_count, results>>

graphVars == <<messages, next_node, run_status, model_calls>>

\* The programs other than the hotel server.
limitedAgentVars == <<history, request_tools, agent_node>>

supervisorVars == <<main_pc, triage_output, started, weather>>

otherPrograms ==
  <<linkedinVars, graphVars, limitedAgentVars, supervisorVars>>

vars == <<serverVars, twinVars, concVars, otherPrograms>>

NoRequest == [location |-> "", check_in |-> << >>, check_out |-> << >>,
              pending |-> FALSE]

NoResponse == [status |-> "none", error |-> NoError, hotels |-> << >>]

\* No second execution is looked at.
TwinAbsent ==
  /\ twinRng = 0
  /\ twinFakeRng = 0
  /\ twinResponse = NoResponse

\* process_linkedin_invitations is not running.
NoBrowser ==
  /\ pc = "idle"
  /\ page = 0
  /\ clicked = << >>
  /\ invitation_cards = 0
  /\ last_processed_index = 0
  /\ index = 0
  /\ processed_count = 0
  /\ results = << >>

\* The graph is not run.
NoGraph ==
  /\ messages = << >>
  /\ next_node = "START"
  /\ run_status = "absent"
  /\ model_calls = 0

\* Only the hotel server runs.
\* The agent with the tool call limit is not run.
NoLimitedAgent ==
  /\ history = << >>
  /\ request_tools = {}
  /\ agent_node = "absent"

NoTriage == [language |-> "none"]

\* The supervisor's main is not run.
NoSupervisor ==
  /\ main_pc = "absent"
  /\ triage_output = NoTriage
  /\ started = << >>
  /\ weather = << >>

OtherProgramsAbsent ==
  NoBrowser /\ NoGraph /\ NoLimitedAgent /\ NoSupervisor

Clients == {"a", "b"}

NoInvocation == [location |-> "", check_in |-> << >>, check_out |-> << >>,
                 stage |-> "none"]

\* No calls overlap.
NoOverlap ==
  /\ invocations = [c \in Clients |-> NoInvocation]
  /\ returned = [c \in Clients |-> NoResponse]

\* The module is imported: both generators are seeded from the system.
Init ==
  /\ rng \in 0..(NumSeeds - 1)
  /\ fakeRng \in 0..1
  /\ calls = 0
  /\ request = NoRequest
  /\ response = NoResponse
  /\ TwinAbsent
  /\ NoOverlap
  /\ OtherProgramsAbsent

\* The server dispatches a tool call to suggest_hotels, which runs to its
\* end without yielding.
SuggestHotels(location, check_in, check_out) ==
  /\ ~request.pending
  /\ calls < MaxCalls
  /\ \E r \in {suggest_hotels(location, check_in, check_out, rng, fakeRng)} :
         /\ rng' = r.rng
         /\ fakeRng' = r.fake
         /\ response' = [status |-> IF r.raised THEN "raised" ELSE "returned",
                         error |-> r.error, hotels |-> r.hotels]
  /\ request' = [location |-> location, check_in |-> check_in,
                 check_out |-> check_out, pending |-> TRUE]
  /\ calls' = calls + 1

\* The server sends the result, or the error, back to the caller.
Respond ==
  /\ request.pending
  /\ request' = NoRequest
  /\ response' = NoResponse
  /\ UNCHANGED <<rng, fakeRng, calls>>

Next ==
  \/ \E location \in LocationInputs, check_in \in DateInputs,
        check_out \in DateInputs :
       SuggestHotels(location, check_in, check_out)
         /\ UNCHANGED <<twinVars, concVars, otherPrograms>>
  \/ Respond /\ UNCHANGED <<twinVars, concVars, otherPrograms>>

Spec == Init /\ [][Next]_vars

(***************************************************************************)
(* Two executions of the server.  random.seed(k) has been called in both   *)
(* with the same k, so their random generators start in one state; no      *)
(* statement of the module seeds Faker, whose generator is an object of    *)
(* its own, so the two Faker states are independent.  Both get the same    *)
(* calls.                                                                  *)
(***************************************************************************)
TwinInit ==
  /\ rng \in 0..(NumSeeds - 1)
  /\ twinRng = rng
  /\ fakeRng = 0
  /\ twinFakeRng \in 0..1
  /\ calls = 0
  /\ request = NoRequest
  /\ response = NoResponse
  /\ twinResponse = NoResponse
  /\ NoOverlap
  /\ OtherProgramsAbsent

\* The same tool call is answered in both executions.
TwinSuggestHotels(location, check_in, check_out) ==
  /\ SuggestHotels(location, check_in, check_out)
  /\ \E r \in {suggest_hotels(location, check_in, check_out, twinRng,
                               twinFakeRng)} :
         /\ twinRng' = r.rng
         /\ twinFakeRng' = r.fake
         /\ twinResponse' =
              [status |-> IF r.raised THEN "raised" ELSE "returned",
               error |-> r.error, hotels |-> r.hotels]

\* Both executions send their results back.
TwinRespond ==
  /\ Respond
  /\ twinResponse' = NoResponse
  /\ UNCHANGED <<twinRng, twinFakeRng>>

TwinNext ==
  \/ \E location \in LocationInputs, check_in \in DateInputs,
        check_out \in DateInputs :
       TwinSuggestHotels(location, check_in, check_out)
         /\ UNCHANGED <<concVars, otherPrograms>>
  \/ TwinRespond /\ UNCHANGED <<concVars, otherPrograms>>

TwinSpec == TwinInit /\ [][TwinNext]_vars

(***************************************************************************)
(* Overlapping tool calls.  The server runs every call as a task of one    *)
(* event loop.  suggest_hotels is a coroutine without an await, so a task  *)
(* that has entered it runs it to its end before another task runs; calls  *)
(* overlap in that several have arrived and not been answered.  hotels is  *)
(* a local list of the call; random and fake belong to the module.         *)
(***************************************************************************)
ConcDateInputs ==
  { << <<"2","0","2","4","-","0","5","-","0","8">>,
       <<"2","0","2","4","-","0","5","-","1","0">> >>,
    << <<"2","0","2","4","-","0","5","-","1","0">>,
       <<"2","0","2","4","-","0","5","-","0","8">> >>,
    << <<"2","0","2","4","/","0","5","/","1","0">>,
       <<"2","0","2","4","-","0","5","-","1","2">> >> }

ConcInit ==
  /\ rng \in 0..(NumSeeds - 1)
  /\ fakeRng \in 0..1
  /\ calls = 0
  /\ request = NoRequest
  /\ response = NoResponse
  /\ TwinAbsent
  /\ NoOverlap
  /\ OtherProgramsAbsent

\* A tool call of client c arrives and becomes a task.
Receive(c, location, check_in, check_out) ==
  /\ invocations[c].stage = "none"
  /\ calls < MaxCalls
  /\ invocations' =
       [invocations EXCEPT ![c] = [location |-> location,
                                   check_in |-> check_in,
                                   check_out |-> check_out,
                                   stage |-> "received"]]
  /\ calls' = calls + 1
  /\ UNCHANGED <<rng, fakeRng, request, response, returned, twinVars>>

\* The task of c runs suggest_hotels, and the listings of every call not
\* yet answered are in one list.
Handle_shared_list(c) ==
  /\ invocations[c].stage = "received"
  /\ \E r \in {suggest_hotels(invocations[c].location,
                               invocations[c].check_in,
                               invocations[c].check_out, rng, fakeRng)} :
         /\ rng' = r.rng
         /\ fakeRng' = r.fake
         /\ returned' =
              [returned EXCEPT ![c] =
                 [status |-> IF r.raised THEN "raised" ELSE "returned",
                  error |-> r.error,
                  hotels |->
                    IF r.raised THEN << >>
                    ELSE sort_by_rating(
                           returned[CHOOSE d \in Clients : d # c].hotels
                             \o r.hotels)]]
  /\ invocations' = [invocations EXCEPT ![c].stage = "handled"]
  /\ UNCHANGED <<calls, request, response, twinVars>>

\* The task of c runs suggest_hotels from its first statement to its
\* return or raise.
Handle(c) ==
  /\ invocations[c].stage = "received"
  /\ \E r \in {suggest_hotels(invocations[c].location,
                               invocations[c].check_in,
                               invocations[c].check_out, rng, fakeRng)} :
         /\ rng' = r.rng
         /\ fakeRng' = r.fake
         /\ returned' =
              [returned EXCEPT ![c] =
                 [status |-> IF r.raised THEN "raised" ELSE "returned",
                  error |-> r.error, hotels |-> r.hotels]]
  /\ invocations' = [invocations EXCEPT ![c].stage = "handled"]
  /\ UNCHANGED <<calls, request, response, twinVars>>

\* The result of c's call, or its error, is sent to c.
Deliver(c) ==
  /\ invocations[c].stage = "handled"
  /\ invocations' = [invocations EXCEPT ![c] = NoInvocation]
  /\ returned' = [returned EXCEPT ![c] = NoResponse]
  /\ UNCHANGED <<rng, fakeRng, calls, request, response, twinVars>>

ConcNext ==
  \/ \E c \in Clients, location \in LocationInputs, dates \in ConcDateInputs :
       Receive(c, location, dates[1], dates[2]) /\ UNCHANGED otherPrograms
  \/ \E c \in Clients : Handle(c) /\ UNCHANGED otherPrograms
  \/ \E c \in Clients : Deliver(c) /\ UNCHANGED otherPrograms

ConcSpec == ConcInit /\ [][ConcNext]_vars

(***************************************************************************)
(* process_linkedin_invitations (examples/openai_mcp.py).  Texts are       *)
(* sequences of one-character strings.                                     *)
(***************************************************************************)
NUM_TO_ACCEPT == 100

\* The most cards a query of the page returns, and the most cards one
\* scroll adds to the list.
MaxCards == 116

MaxLoaded == 2

UpperCase ==
  <<"A","B","C","D","E","F","G","H","I","J","K","L","M","N","O","P","Q","R",
    "S","T","U","V","W","X","Y","Z">>

LowerCase ==
  <<"a","b","c","d","e","f","g","h","i","j","k","l","m","n","o","p","q","r",
    "s","t","u","v","w","x","y","z">>

\* str.lower()
Lower(text) ==
  [i \in DOMAIN text |->
     IF \E k \in DOMAIN UpperCase : UpperCase[k] = text[i]
     THEN LowerCase[CHOOSE k \in DOMAIN UpperCase : UpperCase[k] = text[i]]
     ELSE text[i]]

\* term in text
Contains(term, text) ==
  \E i \in 1..(Len(text) - Len(term) + 1) :
    SubSeq(text, i, i + Len(term) - 1) = term

recruiter_terms ==
  { <<"r","e","c","r","u","i","t">>, <<"t","a","l","e","n","t">>,
    <<"h","r">>, <<"s","o","u","r","c","i","n","g">> }

technical_terms ==
  { <<"e","n","g","i","n","e","e","r">>,
    <<"d","e","v","e","l","o","p","e","r">>,
    <<"p","r","o","g","r","a","m","m","e","r">>,
    <<"s","o","f","t","w","a","r","e">>, <<"d","a","t","a">>,
    <<"t","e","c","h">>, <<"c","o","d","e">> }

Unknown == <<"U","n","k","n","o","w","n">>

\* What the page holds: the cards of the invitations, in the order of the
\* list, repeated.  A card is what the selectors find in it.
CardInputs ==
  << [name_element |-> TRUE,
       job_title_element |-> TRUE,
       job_title_text |-> <<"R","e","c","r","u","i","t","e","r">>,
       connection_info_element |-> TRUE,
       connection_info_text |-> <<"5"," ","m","u","t","u","a","l"," ","c","o",
                                 "n","n","e","c","t","i","o","n","s">>,
       accept_button |-> TRUE, ignore_button |-> TRUE],
     [name_element |-> TRUE,
       job_title_element |-> TRUE,
       job_title_text |-> <<"S","o","f","t","w","a","r","e"," ","E","n","g",
                           "i","n","e","e","r">>,
       connection_info_element |-> TRUE,
       connection_info_text |-> <<"1"," ","m","u","t","u","a","l"," ","c","o",
                                 "n","n","e","c","t","i","o","n">>,
       accept_button |-> TRUE, ignore_button |-> TRUE],
     [name_element |-> TRUE,
       job_title_element |-> TRUE,
       job_title_text |-> <<"S","o","f","t","w","a","r","e"," ","E","n","g",
                           "i","n","e","e","r">>,
       connection_info_element |-> FALSE,
       connection_info_text |-> << >>,
       accept_button |-> TRUE, ignore_button |-> TRUE],
     [name_element |-> TRUE,
       job_title_element |-> TRUE,
       job_title_text |-> <<"C","h","r","o","m","e"," ","D","e","v","e","l",
                           "o","p","e","r">>,
       connection_info_element |-> TRUE,
       connection_info_text |-> <<"1"," ","m","u","t","u","a","l"," ","c","o",
                                 "n","n","e","c","t","i","o","n">>,
       accept_button |-> TRUE, ignore_button |-> TRUE],
     [name_element |-> FALSE,
       job_title_element |-> TRUE,
       job_title_text |-> <<"S","o","f","t","w","a","r","e"," ","E","n","g",
                           "i","n","e","e","r">>,
       connection_info_element |-> TRUE,
       connection_info_text |-> <<"1"," ","m","u","t","u","a","l"," ","c","o",
                                 "n","n","e","c","t","i","o","n">>,
       accept_button |-> TRUE, ignore_button |-> TRUE],
     [name_element |-> TRUE,
       job_title_element |-> TRUE,
       job_title_text |-> <<"S","a","l","e","s"," ","M","a","n","a","g","e",
                           "r">>,
       connection_info_element |-> TRUE,
       connection_info_text |-> <<"3"," ","M","u","t","u","a","l"," ","C","o",
                                 "n","n","e","c","t","i","o","n","s">>,
       accept_button |-> TRUE, ignore_button |-> TRUE],
     [name_element |-> TRUE,
       job_title_element |-> FALSE,
       job_title_text |-> << >>,
       connection_info_element |-> FALSE,
       connection_info_text |-> << >>,
       accept_button |-> TRUE, ignore_button |-> TRUE],
     [name_element |-> TRUE,
       job_title_element |-> TRUE,
       job_title_text |-> <<"D","a","t","a"," ","E","n","g","i","n","e","e",
                           "r">>,
       connection_info_element |-> TRUE,
       connection_info_text |-> <<"1"," ","m","u","t","u","a","l"," ","c","o",
                                 "n","n","e","c","t","i","o","n">>,
       accept_button |-> FALSE, ignore_button |-> FALSE] >>

\* The card at a position of the list.
Card(i) == CardInputs[((page + i) % Len(CardInputs)) + 1]

\* job_title_element.inner_text() if job_title_element else "Unknown"
job_title(card) ==
  IF card.job_title_element THEN card.job_title_text ELSE Unknown

\* connection_info_element.inner_text() if connection_info_element else ""
connection_info(card) ==
  IF card.connection_info_element THEN card.connection_info_text ELSE << >>

has_mutual_connections(card) ==
  Contains(<<"m","u","t","u","a","l"," ","c","o","n","n","e","c","t","i","o","n">>,
           Lower(connection_info(card)))

is_recruiter(card) ==
  \E term \in recruiter_terms : Contains(term, Lower(job_title(card)))

is_technical(card) ==
  \E term \in technical_terms : Contains(term, Lower(job_title(card)))

decision(card) ==
  IF is_recruiter(card) THEN "ignore"
  ELSE IF is_technical(card) /\ has_mutual_connections(card) THEN "accept"
  ELSE "undecided"

\* The hotel server is not running.
ServerAbsent ==
  /\ rng = 0
  /\ fakeRng = 0
  /\ calls = 0
  /\ request = NoRequest
  /\ response = NoResponse
  /\ TwinAbsent
  /\ NoOverlap

\* process_linkedin_invitations is called; the page lists the invitations
\* from some card of CardInputs on.
LinkedInInit ==
  /\ pc = "start"
  /\ page \in 0..(Len(CardInputs) - 1)
  /\ clicked = << >>
  /\ invitation_cards = 0
  /\ last_processed_index = 0
  /\ index = 0
  /\ processed_count = 0
  /\ results = << >>
  /\ ServerAbsent
  /\ NoGraph
  /\ NoLimitedAgent
  /\ NoSupervisor

\* Lines 47 to 77: the browser is opened, the user logs in, the invitation
\* manager is loaded and queried for its cards.
OpenInvitationManager(found) ==
  /\ pc = "start"
  /\ invitation_cards' = found
  /\ last_processed_index' = 0
  /\ pc' = "while"
  /\ UNCHANGED <<page, clicked, index, processed_count, results>>

\* Line 79, and line 80 with the iterations that line 82 skips: the for
\* loop starts over at index 0 and goes on at once for index <
\* last_processed_index.
While ==
  /\ pc = "while"
  /\ IF processed_count < NUM_TO_ACCEPT /\ invitation_cards > 0
     THEN /\ pc' = "for"
          /\ index' = IF last_processed_index < invitation_cards
                      THEN last_processed_index
                      ELSE invitation_cards
     ELSE /\ pc' = "report"
          /\ UNCHANGED index
  /\ UNCHANGED <<page, clicked, invitation_cards, last_processed_index,
                 processed_count, results>>

\* Lines 85 to 144: one pass of the for loop's body for a card that has
\* not been skipped.
ForBody ==
  /\ pc = "for"
  /\ index < invitation_cards
  /\ \E card \in {Card(index)} :
       IF processed_count >= NUM_TO_ACCEPT
       THEN /\ pc' = "after_for"                                  \* break
            /\ UNCHANGED <<index, clicked, processed_count, results>>
       ELSE IF ~card.name_element
       THEN /\ index' = index + 1                                 \* continue
            /\ UNCHANGED <<pc, clicked, processed_count, results>>
       ELSE /\ clicked' =
                 IF decision(card) = "accept" /\ card.accept_button
                 THEN Append(clicked, [card |-> index, button |-> "Accept"])
                 ELSE IF decision(card) = "ignore" /\ card.ignore_button
                 THEN Append(clicked, [card |-> index, button |-> "Ignore"])
                 ELSE clicked
            /\ results' =
                 Append(results,
                        [card |-> index,
                         job_title |-> job_title(card),
                         mutual_connections |-> has_mutual_connections(card),
                         is_recruiter |-> is_recruiter(card),
                         is_technical |-> is_technical(card),
                         decision |-> decision(card)])
            /\ processed_count' = processed_count + 1
            /\ IF processed_count + 1 >= NUM_TO_ACCEPT
               THEN pc' = "after_for" /\ UNCHANGED index          \* break
               ELSE pc' = pc /\ index' = index + 1
  /\ UNCHANGED <<page, invitation_cards, last_processed_index>>

\* The for loop has gone through the list.
EndFor ==
  /\ pc = "for"
  /\ index = invitation_cards
  /\ pc' = "after_for"
  /\ UNCHANGED <<page, clicked, invitation_cards, last_processed_index,
                 index, processed_count, results>>

\* What a query can return after a scroll: the list as it was, the list
\* with cards added at its end, or nothing.
Requeried ==
  {0} \cup {n \in invitation_cards..(invitation_cards + MaxLoaded) :
              n <= MaxCards}

\* Lines 147 to 159 below the limit: the page is scrolled and queried
\* again; an empty list ends the while loop.
Scroll(found) ==
  /\ pc = "after_for"
  /\ processed_count < NUM_TO_ACCEPT
  /\ last_processed_index' = invitation_cards
  /\ invitation_cards' = found
  /\ pc' = IF found = 0 THEN "report" ELSE "while"
  /\ UNCHANGED <<page, clicked, index, processed_count, results>>

\* Lines 147 to 149 at the limit.
NoScroll ==
  /\ pc = "after_for"
  /\ processed_count >= NUM_TO_ACCEPT
  /\ last_processed_index' = invitation_cards
  /\ pc' = "while"
  /\ UNCHANGED <<page, clicked, invitation_cards, index, processed_count,
                 results>>

\* Lines 161 to 188: the report is printed, the browser closed, results
\* returned.
Report ==
  /\ pc = "report"
  /\ pc' = "done"
  /\ UNCHANGED <<page, clicked, invitation_cards, last_processed_index,
                 index, processed_count, results>>

besideLinkedIn ==
  <<serverVars, twinVars, concVars, graphVars, limitedAgentVars,
    supervisorVars>>

LinkedInNext ==
  \/ \E found \in 0..MaxLoaded :
       OpenInvitationManager(found) /\ UNCHANGED besideLinkedIn
  \/ While /\ UNCHANGED besideLinkedIn
  \/ ForBody /\ UNCHANGED besideLinkedIn
  \/ EndFor /\ UNCHANGED besideLinkedIn
  \/ \E found \in Requeried :
       Scroll(found) /\ UNCHANGED besideLinkedIn
  \/ NoScroll /\ UNCHANGED besideLinkedIn
  \/ Report /\ UNCHANGED besideLinkedIn

LinkedInSpec == LinkedInInit /\ [][LinkedInNext]_vars

\* asyncio.run(process_linkedin_invitations()): the coroutine is the one
\* task of its event loop, so it goes on as long as it has a next step;
\* every await of it returns.  The page is free to answer a query as it
\* likes every time.
LinkedInFairSpec == LinkedInSpec /\ WF_vars(LinkedInNext)

(***************************************************************************)
(* The graph of examples/langgraph_agent.py and its one run.  A message is *)
(* a record of its type, its content and its tool calls.                   *)
(***************************************************************************)
MaxModelCalls == 3

SongInputs == {"Anti-Hero", "Shake It Off"}

\* tools = [play_song_on_apple, play_song_on_spotify]
tools == {"play_song_on_apple", "play_song_on_spotify"}

play_song_on_spotify(song) == <<"Successfully played ", song, " on Spotify!">>

play_song_on_apple(song) ==
  <<"Successfully played ", song, " on Apple Music!">>

input_message ==
  [type |-> "human",
   content |-> <<"Can you play Taylor Swift's most popular song?">>,
   tool_calls |-> << >>]

\* What model.invoke(messages) can return: an answer, or one call of one
\* of the bound tools (parallel_tool_calls=False).
ModelResponses ==
  {[type |-> "ai", content |-> <<"answer">>, tool_calls |-> << >>]}
    \cup {[type |-> "ai", content |-> << >>,
           tool_calls |-> <<[name |-> n, song |-> s]>>] :
            n \in tools, s \in SongInputs}

\* The routing function with its two outcomes exchanged.
should_continue_exchanged(state_messages) ==
  IF state_messages[Len(state_messages)].tool_calls = << >>
  THEN "continue"
  ELSE "end"

should_continue(state_messages) ==
  IF state_messages[Len(state_messages)].tool_calls = << >>
  THEN "end"
  ELSE "continue"

\* The mapping of the conditional edge that leaves agent.
after_agent(outcome) ==
  CASE outcome = "continue" -> "action"
    [] outcome = "end" -> "END"

\* workflow.add_edge(START, "agent") and workflow.add_edge("action", "agent")
after_START == "agent"

\* An edge that leads from action to the end.
after_action_to_END == "END"

after_action == "agent"

\* workflow.compile(checkpointer=memory): no interrupt_before is passed.
interrupt_before == {}

\* ToolNode(tools): one tool message for every tool call of the last
\* message.
tool_node(state_messages) ==
  LET tool_calls == state_messages[Len(state_messages)].tool_calls
  IN  [i \in DOMAIN tool_calls |->
         [type |-> "tool",
          content |-> IF tool_calls[i].name = "play_song_on_spotify"
                      THEN play_song_on_spotify(tool_calls[i].song)
                      ELSE play_song_on_apple(tool_calls[i].song),
          tool_calls |-> << >>]]

\* How the run goes on when node is the next to run: it is over at END,
\* it stops at a breakpoint, it runs the node otherwise.
Arrive(node) ==
  IF node = "END" THEN "finished"
  ELSE IF node \in interrupt_before THEN "interrupted"
  ELSE "running"

GraphInit ==
  /\ messages = << >>
  /\ next_node = "START"
  /\ run_status = "compiled"
  /\ model_calls = 0
  /\ ServerAbsent
  /\ NoBrowser
  /\ NoLimitedAgent
  /\ NoSupervisor

\* app.stream({"messages": [input_message]}, config, stream_mode="values")
Stream ==
  /\ run_status = "compiled"
  /\ messages' = <<input_message>>
  /\ next_node' = after_START
  /\ run_status' = Arrive(after_START)
  /\ UNCHANGED model_calls

\* The agent node: call_model, then the conditional edge.
Agent(model_response) ==
  /\ run_status = "running"
  /\ next_node = "agent"
  /\ model_calls < MaxModelCalls
  /\ messages' = Append(messages, model_response)
  /\ model_calls' = model_calls + 1
  /\ next_node' = after_agent(should_continue(messages'))
  /\ run_status' = Arrive(next_node')

\* The action node: tool_node, then the edge to agent.
Action ==
  /\ run_status = "running"
  /\ next_node = "action"
  /\ messages' = messages \o tool_node(messages)
  /\ next_node' = after_action
  /\ run_status' = Arrive(after_action)
  /\ UNCHANGED model_calls

besideGraph ==
  <<serverVars, twinVars, concVars, linkedinVars, limitedAgentVars,
    supervisorVars>>

GraphNext ==
  \/ Stream /\ UNCHANGED besideGraph
  \/ \E model_response \in ModelResponses :
       Agent(model_response) /\ UNCHANGED besideGraph
  \/ Action /\ UNCHANGED besideGraph

GraphSpec == GraphInit /\ [][GraphNext]_vars

(***************************************************************************)
(* The agent of examples/langchainv1_mcp_github.py: create_agent with      *)
(* ToolCallLimitMiddleware(limit=5).  The agent calls the model, runs the  *)
(* tools the model's message calls, and calls the model again, until a     *)
(* message of the model carries no tool call.                              *)
(***************************************************************************)
limit == 5

\* What client.get_tools() returns: among others the four tools wanted.
ServerTools ==
  {"create_issue", "list_issues", "search_code", "search_issues",
   "search_pull_requests"}

\* [t for t in tools if t.name in (...)]
agent_tools ==
  {tool \in ServerTools :
     tool \in {"list_issues", "search_code", "search_issues",
               "search_pull_requests"}}

user_message ==
  [type |-> "human", content |-> "stale_prompt", tool_calls |-> << >>]

\* sum(1 for msg in state["messages"]
\*     if isinstance(msg, AIMessage) and msg.tool_calls)
tool_call_count(state_messages) ==
  Cardinality({i \in DOMAIN state_messages :
                 /\ state_messages[i].type = "ai"
                 /\ state_messages[i].tool_calls # << >>})

\* ToolCallLimitMiddleware.modify_model_request: the tools of the request
\* it returns.
modify_model_request(tools_of_request, state_messages) ==
  IF tool_call_count(state_messages) >= limit
  THEN {}
  ELSE tools_of_request

\* What the model can answer to a request that offers it the tools
\* offered: a message without tool calls, a call of one tool offered, or
\* two calls in one message.  The model calls no tool it is not offered.
ModelAnswers(offered) ==
  {[type |-> "ai", content |-> "answer", tool_calls |-> << >>]}
    \cup {[type |-> "ai", content |-> "", tool_calls |-> <<tool>>] :
            tool \in offered}
    \cup {[type |-> "ai", content |-> "", tool_calls |-> <<tool, tool>>] :
            tool \in offered \cap {"search_issues"}}

\* The tool messages for the tool calls of the last message.
ToolResults(state_messages) ==
  LET tool_calls == state_messages[Len(state_messages)].tool_calls
  IN  [i \in DOMAIN tool_calls |->
         [type |-> "tool", content |-> tool_calls[i], tool_calls |-> << >>]]

\* agent.astream({"messages": [HumanMessage(content=user_content)]}, ...)
LimitedAgentInit ==
  /\ history = <<user_message>>
  /\ request_tools = {}
  /\ agent_node = "model"
  /\ ServerAbsent
  /\ NoBrowser
  /\ NoGraph
  /\ NoSupervisor

\* The model node: the request goes through the middleware and to the
\* model, whose message is added to the history.
ModelNode(answer) ==
  /\ agent_node = "model"
  /\ request_tools' = modify_model_request(agent_tools, history)
  /\ answer \in ModelAnswers(request_tools')
  /\ history' = Append(history, answer)
  /\ agent_node' = IF answer.tool_calls = << >> THEN "end" ELSE "tools"

\* The tools node: every tool call of the last message is made.
ToolsNode ==
  /\ agent_node = "tools"
  /\ history' = history \o ToolResults(history)
  /\ agent_node' = "model"
  /\ UNCHANGED request_tools

besideLimitedAgent ==
  <<serverVars, twinVars, concVars, linkedinVars, graphVars, supervisorVars>>

LimitedAgentNext ==
  \/ \E answer \in ModelAnswers(agent_tools) :
       ModelNode(answer) /\ UNCHANGED besideLimitedAgent
  \/ ToolsNode /\ UNCHANGED besideLimitedAgent

LimitedAgentSpec == LimitedAgentInit /\ [][LimitedAgentNext]_vars

(***************************************************************************)
(* main of examples/pydanticai_supervisor.py.  The runs of the agents are  *)
(* the library's; a weather agent's run may call get_weather.              *)
(***************************************************************************)
MaxWeatherCalls == 2

CityInputs == {"San Francisco CA", "Madrid"}

\* TriageResult.language: Literal["spanish", "english"]
Languages == {"spanish", "english"}

\* get_weather(ctx, city).  s is the state of random before the call.
get_weather(city, s) ==
  LET s1 == RngNext(s)
      s2 == RngNext(s1)
      s3 == RngNext(s2)
  IN  [weather |-> [city |-> city,
                    temperature |-> RandInt(s1, 50, 90),
                    wind_speed |-> RandInt(s2, 5, 20),
                    rain_chance |-> RandInt(s3, 0, 100)],
       rng |-> s3]

\* A choice that compares the language with a capitalised word.
weather_agent_capitalised(language) ==
  IF language = "Spanish"
  THEN "spanish_weather_agent"
  ELSE "english_weather_agent"

\* Lines 90 to 93: the agent whose run is called.
weather_agent(language) ==
  IF language = "spanish"
  THEN "spanish_weather_agent"
  ELSE "english_weather_agent"

\* asyncio.run(main())
SupervisorInit ==
  /\ main_pc = "start"
  /\ triage_output = NoTriage
  /\ started = << >>
  /\ weather = << >>
  /\ rng \in 0..(NumSeeds - 1)
  /\ fakeRng = 0
  /\ calls = 0
  /\ request = NoRequest
  /\ response = NoResponse
  /\ TwinAbsent
  /\ NoOverlap
  /\ NoBrowser
  /\ NoGraph
  /\ NoLimitedAgent

\* Line 87, up to the await: triage_agent.run(user_input) is called.
RunTriage ==
  /\ main_pc = "start"
  /\ started' = Append(started, "triage_agent")
  /\ main_pc' = "triage"
  /\ UNCHANGED <<triage_output, weather, rng>>

\* Lines 87 to 89: the run of the triage agent returns its result.
TriageReturns(language) ==
  /\ main_pc = "triage"
  /\ triage_output' = [language |-> language]
  /\ main_pc' = "branch"
  /\ UNCHANGED <<started, weather, rng>>

\* Lines 90 to 93, up to the await: the run of one weather agent is called.
RunWeatherAgent ==
  /\ main_pc = "branch"
  /\ started' = Append(started, weather_agent(triage_output.language))
  /\ main_pc' = "weather"
  /\ UNCHANGED <<triage_output, weather, rng>>

\* The weather agent's model calls the tool.
GetWeather(city) ==
  /\ main_pc = "weather"
  /\ Len(weather) < MaxWeatherCalls
  /\ \E r \in {get_weather(city, rng)} :
       /\ weather' = Append(weather, r.weather)
       /\ rng' = r.rng
  /\ UNCHANGED <<main_pc, triage_output, started>>

\* Lines 91 to 94: the run of the weather agent returns and its output is
\* printed.
WeatherReturns ==
  /\ main_pc = "weather"
  /\ main_pc' = "done"
  /\ UNCHANGED <<triage_output, started, weather, rng>>

besideSupervisor ==
  <<fakeRng, calls, request, response, twinVars, concVars, linkedinVars,
    graphVars, limitedAgentVars>>

SupervisorNext ==
  \/ RunTriage /\ UNCHANGED besideSupervisor
  \/ \E language \in Languages :
       TriageReturns(language) /\ UNCHANGED besideSupervisor
  \/ RunWeatherAgent /\ UNCHANGED besideSupervisor
  \/ \E city \in CityInputs : GetWeather(city) /\ UNCHANGED besideSupervisor
  \/ WeatherReturns /\ UNCHANGED besideSupervisor

SupervisorSpec == SupervisorInit /\ [][SupervisorNext]_vars

(***************************************************************************)
(* The vocabulary of the properties.                                       *)
(***************************************************************************)
\* The three kinds of failure, told apart by the statement that raises and
\* the text it raises with (the exception class is ValueError for all).
ErrorKind(e) ==
  CASE e.site = "iso_pattern" -> "InvalidDateFormat"
    [] e.site = "strptime" -> "InvalidDateValue"
    [] e.site = "range" -> "InvalidDateRange"
    [] OTHER -> "none"

ErrorKinds == {"InvalidDateFormat", "InvalidDateValue", "InvalidDateRange"}

\* The year, month and day a string of the layout YYYY-MM-DD writes.
YearOf(s) == NumberAt(s, 1, 4)
MonthOf(s) == NumberAt(s, 6, 2)
DayOf(s) == NumberAt(s, 9, 2)

\* A string of the layout YYYY-MM-DD names a real calendar date: ten
\* characters, a year from 1 on, a month of the year, a day of that month.
RealCalendarDate(s) ==
  /\ Len(s) = 10
  /\ YearOf(s) >= 1
  /\ MonthOf(s) \in 1..12
  /\ DayOf(s) \in 1..DaysInMonth(YearOf(s), MonthOf(s))

\* Passes rule 1 and rule 2 on its own.
ValidDate(s) == IsoPatternMatch(s) /\ RealCalendarDate(s)

\* Matches the pattern and names no date.
UnrealDate(s) == IsoPatternMatch(s) /\ ~RealCalendarDate(s)

RECURSIVE DaysBeforeMonth(_, _)
DaysBeforeMonth(y, m) ==
  IF m = 1 THEN 0 ELSE DaysBeforeMonth(y, m - 1) + DaysInMonth(y, m - 1)

\* The number of the day a valid date names, counted from 0001-01-01.
Ordinal(s) ==
  LET y == YearOf(s) - 1
  IN  365 * y + (y \div 4) - (y \div 100) + (y \div 400)
        + DaysBeforeMonth(YearOf(s), MonthOf(s)) + DayOf(s)

\* A call has been answered and its answer is still in the state.
Answered == request.pending

Succeeded == Answered /\ response.status = "returned"

Failed == Answered /\ response.status = "raised"

FailedWith(kind) == Failed /\ ErrorKind(response.error) = kind

HotelFields ==
  {"name", "address", "location", "rating", "price_per_night", "hotel_type",
   "amenities", "available_rooms"}

\* The parameter the error text names, when it names one, and the value
\* the caller passed for it.
Received(param) ==
  IF param = "check_in" THEN request.check_in ELSE request.check_out

NamesAndQuotes(param) ==
  /\ response.error.names = <<param>>
  /\ response.error.embedded = <<Received(param)>>

(***************************************************************************)
(* C1.  A call either returns a complete result or fails with exactly one  *)
(* of the three kinds, and it succeeds if and only if both parameters      *)
(* match the pattern, both name real calendar dates and check_out is       *)
(* strictly later than check_in.                                           *)
(***************************************************************************)
C1_SucceedsIffValid ==
  Answered =>
    /\ response.status \in {"returned", "raised"}
    /\ response.status = "returned" <=>
         /\ ValidDate(request.check_in)
         /\ ValidDate(request.check_out)
         /\ Ordinal(request.check_out) > Ordinal(request.check_in)
    /\ response.status = "returned" =>
         /\ response.error = NoError
         /\ response.hotels # << >>
         /\ \A i \in 1..Len(response.hotels) :
              DOMAIN response.hotels[i] = HotelFields
    /\ response.status = "raised" =>
         /\ ErrorKind(response.error) \in ErrorKinds
         /\ response.hotels = << >>

\* Both outcomes happen: a stay of one night over the end of February of a
\* leap year is accepted.
C1_Witness ==
  /\ Succeeded
  /\ request.check_in = <<"2","0","2","4","-","0","2","-","2","9">>
  /\ request.check_out = <<"2","0","2","4","-","0","3","-","0","1">>

(***************************************************************************)
(* C2.  Two individually valid dates with check_out not strictly later     *)
(* than check_in (earlier, or the same day) fail with InvalidDateRange and *)
(* return no result.                                                       *)
(***************************************************************************)
C2_RangeError ==
  ( /\ Answered
    /\ ValidDate(request.check_in)
    /\ ValidDate(request.check_out)
    /\ Ordinal(request.check_out) <= Ordinal(request.check_in) )
  => /\ FailedWith("InvalidDateRange")
     /\ response.hotels = << >>

\* The same day on both sides is refused.
C2_Witness ==
  /\ FailedWith("InvalidDateRange")
  /\ ValidDate(request.check_in)
  /\ request.check_out = request.check_in

(***************************************************************************)
(* C3.  As stated: if check_in or check_out does not match the pattern,    *)
(* the call fails with InvalidDateFormat, naming a malformed parameter and *)
(* carrying its value.                                                     *)
(***************************************************************************)
C3_AsStated ==
  ( /\ Answered
    /\ ~IsoPatternMatch(request.check_in)
         \/ ~IsoPatternMatch(request.check_out) )
  => /\ FailedWith("InvalidDateFormat")
     /\ \E param \in {"check_in", "check_out"} :
          ~IsoPatternMatch(Received(param)) /\ NamesAndQuotes(param)

(***************************************************************************)
(* C3, amended.  If check_in does not match the pattern, or check_in is a  *)
(* valid date and check_out does not match the pattern, the call fails     *)
(* with InvalidDateFormat, naming the first malformed parameter and        *)
(* carrying its value.                                                     *)
(***************************************************************************)
C3_FormatError ==
  Answered =>
    /\ ~IsoPatternMatch(request.check_in) =>
         FailedWith("InvalidDateFormat") /\ NamesAndQuotes("check_in")
    /\ ( ValidDate(request.check_in)
         /\ ~IsoPatternMatch(request.check_out) ) =>
         FailedWith("InvalidDateFormat") /\ NamesAndQuotes("check_out")

\* The example of the specification: 05-10-2024 as check_in.
C3_Witness ==
  /\ FailedWith("InvalidDateFormat")
  /\ request.check_in = <<"0","5","-","1","0","-","2","0","2","4">>
  /\ request.check_out = <<"2","0","2","4","-","0","5","-","1","2">>
  /\ NamesAndQuotes("check_in")

(***************************************************************************)
(* C4.  As stated: if check_in or check_out matches the pattern but is not *)
(* a real calendar date, the call fails with InvalidDateValue.             *)
(***************************************************************************)
C4_AsStated ==
  ( /\ Answered
    /\ UnrealDate(request.check_in) \/ UnrealDate(request.check_out) )
  => FailedWith("InvalidDateValue")

(***************************************************************************)
(* C4, amended.  If check_in matches the pattern but is not a real         *)
(* calendar date, or check_in is a valid date and check_out matches the    *)
(* pattern but is not a real calendar date, the call fails with            *)
(* InvalidDateValue, a failure raised by another statement and with        *)
(* another text than InvalidDateFormat and InvalidDateRange.               *)
(***************************************************************************)
C4_ValueError ==
  Answered =>
    /\ ( \/ UnrealDate(request.check_in)
         \/ ValidDate(request.check_in) /\ UnrealDate(request.check_out) )
       => /\ FailedWith("InvalidDateValue")
          /\ response.error.site \notin {"iso_pattern", "range"}
          /\ response.error.reason \notin
               {"must be in ISO format (YYYY-MM-DD)", "date must be after"}

\* The example of the specification: 2024-02-30 as check_in.
C4_Witness ==
  /\ FailedWith("InvalidDateValue")
  /\ request.check_in = <<"2","0","2","4","-","0","2","-","3","0">>
  /\ request.check_out = <<"2","0","2","4","-","0","3","-","0","1">>

(***************************************************************************)
(* C5.  Validation runs before any generation: a call that fails leaves    *)
(* both generators in the state they had before the call, has constructed  *)
(* no listing and returns no partial result.                               *)
(***************************************************************************)
C5_NoDrawBeforeFailure ==
  [][ (~request.pending /\ request'.pending
         /\ response'.status = "raised")
      => /\ rng' = rng
         /\ fakeRng' = fakeRng
         /\ response'.hotels = << >> ]_vars

\* The call fails on its second parameter, after check_in was accepted.
C5_Witness ==
  /\ FailedWith("InvalidDateValue")
  /\ ValidDate(request.check_in)
  /\ response.error.names = <<"check_out">>
  /\ response.hotels = << >>

(***************************************************************************)
(* C6.  As stated: every validation failure carries a text that names the  *)
(* invalid parameter and contains the value received for it.               *)
(***************************************************************************)
C6_AsStated ==
  Failed =>
    \E i \in 1..Len(response.error.names) :
      \E j \in 1..Len(response.error.embedded) :
        response.error.embedded[j] = Received(response.error.names[i])

(***************************************************************************)
(* C6, amended.  Every validation failure carries a text that names the    *)
(* parameter at fault.  A format failure names the parameter and contains  *)
(* the value received for it.  A value failure names the parameter and     *)
(* gives the date parser's reason, which quotes the received value when    *)
(* the text does not match the parser's format, the unparsed rest of it    *)
(* when text remains, and nothing otherwise.  A range failure names        *)
(* check_out and check_in and contains no value.                           *)
(***************************************************************************)
C6_ErrorText ==
  Failed =>
    LET e == response.error
    IN  /\ e.names # << >>
        /\ e.site = "iso_pattern" =>
             \E param \in {"check_in", "check_out"} :
               /\ ~IsoPatternMatch(Received(param))
               /\ NamesAndQuotes(param)
        /\ e.site = "strptime" =>
             \E param \in {"check_in", "check_out"} :
               /\ UnrealDate(Received(param))
               /\ e.names = <<param>>
               /\ e.reason = "does not match format" =>
                    e.embedded = <<Received(param)>>
               /\ e.reason = "unconverted data remains" =>
                    /\ Len(e.embedded) = 1
                    /\ e.embedded[1] # << >>
                    /\ Len(e.embedded[1]) < Len(Received(param))
               /\ e.reason \in {"day is out of range for month",
                                "year is out of range"} =>
                    e.embedded = << >>
        /\ e.site = "range" =>
             /\ e.names = <<"check_out", "check_in">>
             /\ e.embedded = << >>

\* The example of the specification for a range failure, whose text quotes
\* neither date.
C6_Witness ==
  /\ FailedWith("InvalidDateRange")
  /\ request.check_in = <<"2","0","2","4","-","0","5","-","1","0">>
  /\ request.check_out = <<"2","0","2","4","-","0","5","-","0","8">>
  /\ response.error.embedded = << >>

(***************************************************************************)
(* C7.  As stated: the pattern is applied to both parameters before the    *)
(* calendar check is applied to either, so a parameter that fails the      *)
(* pattern gives InvalidDateFormat also when the other one is a            *)
(* well-formed date that does not exist.                                   *)
(***************************************************************************)
C7_AsStated ==
  ( /\ Answered
    /\ \/ ~IsoPatternMatch(request.check_in) /\ UnrealDate(request.check_out)
       \/ UnrealDate(request.check_in) /\ ~IsoPatternMatch(request.check_out) )
  => FailedWith("InvalidDateFormat")

(***************************************************************************)
(* C7, amended.  Both rules are applied to check_in before either is       *)
(* applied to check_out: a check_in that fails the pattern gives           *)
(* InvalidDateFormat also when check_out is a well-formed date that does   *)
(* not exist, and a check_in that is well-formed but does not exist gives  *)
(* InvalidDateValue also when check_out fails the pattern.                 *)
(***************************************************************************)
C7_CheckInFirst ==
  Answered =>
    /\ (~IsoPatternMatch(request.check_in) /\ UnrealDate(request.check_out))
         => /\ FailedWith("InvalidDateFormat")
            /\ response.error.names = <<"check_in">>
    /\ (UnrealDate(request.check_in) /\ ~IsoPatternMatch(request.check_out))
         => /\ FailedWith("InvalidDateValue")
            /\ response.error.names = <<"check_in">>

\* A nonexistent check_in with a malformed check_out.
C7_Witness ==
  /\ FailedWith("InvalidDateValue")
  /\ request.check_in = <<"2","0","2","4","-","0","2","-","3","0">>
  /\ request.check_out = <<"0","5","-","1","0","-","2","0","2","4">>

(***************************************************************************)
(* C8.  The result of a call with valid dates, check_out later than        *)
(* check_in, holds between 3 and 8 listings.                               *)
(***************************************************************************)
C8_ListingCount ==
  ( /\ Answered
    /\ ValidDate(request.check_in)
    /\ ValidDate(request.check_out)
    /\ Ordinal(request.check_out) > Ordinal(request.check_in) )
  => /\ Succeeded
     /\ Len(response.hotels) >= 3
     /\ Len(response.hotels) <= 8

\* The largest count is drawn.
C8_Witness == Succeeded /\ Len(response.hotels) = 8

(***************************************************************************)
(* C9.  The returned sequence is sorted by rating in descending order:     *)
(* rating[i] >= rating[i+1] for every adjacent pair.                       *)
(***************************************************************************)
C9_SortedByRating ==
  Succeeded =>
    \A i \in 1..(Len(response.hotels) - 1) :
      response.hotels[i].rating >= response.hotels[i + 1].rating

\* A result with a strict step and with a tie between neighbours.
C9_Witness ==
  /\ Succeeded
  /\ \E i \in 1..(Len(response.hotels) - 1) :
       response.hotels[i].rating > response.hotels[i + 1].rating
  /\ \E i \in 1..(Len(response.hotels) - 1) :
       response.hotels[i].rating = response.hotels[i + 1].rating

(***************************************************************************)
(* C10.  Every listing's rating lies in [3.0, 5.0] and has one fractional  *)
(* digit, and its price_per_night is a whole number inside the range of    *)
(* its hotel_type: Luxury [250, 600], Boutique [180, 350], Budget          *)
(* [80, 150], Business [150, 300].                                         *)
(***************************************************************************)
TypeRange(hotel_type) ==
  CASE hotel_type = "Luxury" -> 250..600
    [] hotel_type = "Boutique" -> 180..350
    [] hotel_type = "Budget" -> 80..150
    [] hotel_type = "Business" -> 150..300
    [] OTHER -> {}

C10_RatingAndPrice ==
  Succeeded =>
    \A i \in 1..Len(response.hotels) :
      LET h == response.hotels[i]
      IN  /\ h.rating >= 3 * Scale
          /\ h.rating <= 5 * Scale
          /\ h.rating % (Scale \div 10) = 0
          /\ h.price_per_night % Scale = 0
          /\ (h.price_per_night \div Scale) \in TypeRange(h.hotel_type)

\* A Business listing priced under 180 and a rating of 5.0 are returned.
C10_Witness ==
  /\ Succeeded
  /\ \E i \in 1..Len(response.hotels) :
       /\ response.hotels[i].hotel_type = "Business"
       /\ response.hotels[i].price_per_night < 180 * Scale
  /\ \E i \in 1..Len(response.hotels) :
       response.hotels[i].rating = 5 * Scale

(***************************************************************************)
(* C11.  The amenities of every returned listing are 3 to 6 entries of the *)
(* catalog of eight, and no entry occurs twice.                            *)
(***************************************************************************)
AmenityCatalog ==
  {"Free WiFi", "Pool", "Spa", "Gym", "Restaurant", "Bar", "Room Service",
   "Parking"}

C11_Amenities ==
  Succeeded =>
    \A i \in DOMAIN response.hotels :
      LET a == response.hotels[i].amenities
      IN  /\ Len(a) \in 3..6
          /\ \A j \in DOMAIN a : a[j] \in AmenityCatalog
          /\ \A j, k \in DOMAIN a : a[j] = a[k] => j = k

\* One result holds a listing of three amenities and a listing of six.
C11_Witness ==
  /\ Succeeded
  /\ \E i, j \in DOMAIN response.hotels :
       /\ Len(response.hotels[i].amenities) = 3
       /\ Len(response.hotels[j].amenities) = 6

(***************************************************************************)
(* C14.  The location of every returned listing is one of the six          *)
(* neighborhoods, then ", ", then the location the caller supplied.        *)
(***************************************************************************)
NeighborhoodNames ==
  {"Downtown", "Historic District", "Waterfront", "Business District",
   "Arts District", "University Area"}

C14_Location ==
  Succeeded =>
    \A i \in DOMAIN response.hotels :
      LET l == response.hotels[i].location
      IN  /\ Len(l) = 3
          /\ l[1] \in NeighborhoodNames
          /\ SubSeq(l, 2, 3) = <<", ", request.location>>

\* A call for Tokyo returns a listing at the Waterfront.
C14_Witness ==
  /\ Succeeded
  /\ request.location = "Tokyo"
  /\ \E i \in DOMAIN response.hotels :
       response.hotels[i].location = <<"Waterfront", ", ", "Tokyo">>

(***************************************************************************)
(* C15.  The hotel_type of every returned listing is one of Luxury,        *)
(* Boutique, Budget and Business, and its name is that hotel_type, a       *)
(* space, and one of Hotel, Inn, Suites, Resort and Plaza.                 *)
(***************************************************************************)
C15_TypeAndName ==
  Succeeded =>
    \A i \in DOMAIN response.hotels :
      LET h == response.hotels[i]
      IN  /\ h.hotel_type \in {"Luxury", "Boutique", "Budget", "Business"}
          /\ Len(h.name) = 3
          /\ h.name[1] = h.hotel_type
          /\ h.name[2] = " "
          /\ h.name[3] \in {"Hotel", "Inn", "Suites", "Resort", "Plaza"}

\* One result holds a Business Plaza and a Luxury Hotel.
C15_Witness ==
  /\ Succeeded
  /\ \E i, j \in DOMAIN response.hotels :
       /\ response.hotels[i].name = <<"Business", " ", "Plaza">>
       /\ response.hotels[i].hotel_type = "Business"
       /\ response.hotels[j].name = <<"Luxury", " ", "Hotel">>

(***************************************************************************)
(* C16.  The sort only reorders: what a call returns holds each generated  *)
(* listing as often as the loop appended it, with every field as it was    *)
(* built, and nothing else.                                                *)
(***************************************************************************)
Occurrences(hs, h) == Cardinality({i \in DOMAIN hs : hs[i] = h})

IsPermutation(a, b) ==
  /\ Len(a) = Len(b)
  /\ \A i \in DOMAIN a : Occurrences(a, a[i]) = Occurrences(b, a[i])

\* The list the loop appends when the call starts in the given states.
Generated(location, s, f) ==
  generate_hotels(num_hotels(RngNext(s)), location, RngNext(s), f).hotels

C16_SortOnlyReorders ==
  [][(~request.pending /\ request'.pending /\ response'.status = "returned")
       => \E appended \in {Generated(request'.location, rng, fakeRng)} :
            IsPermutation(response'.hotels, appended)]_vars

\* A result of eight listings whose first is rated above its last, with two
\* listings of one rating in between.
C16_Witness ==
  /\ Succeeded
  /\ Len(response.hotels) = 8
  /\ response.hotels[1].rating > response.hotels[8].rating
  /\ \E i \in 2..6 : response.hotels[i].rating = response.hotels[i + 1].rating

(***************************************************************************)
(* C12.  As stated: two executions that get the same arguments with the    *)
(* same random seed return identical results.                              *)
(***************************************************************************)
C12_AsStated == request.pending => twinResponse = response

\* The listings of a result with their addresses left out.
WithoutAddresses(hs) ==
  [i \in DOMAIN hs |->
     [name |-> hs[i].name, location |-> hs[i].location,
      rating |-> hs[i].rating, price_per_night |-> hs[i].price_per_night,
      hotel_type |-> hs[i].hotel_type, amenities |-> hs[i].amenities,
      available_rooms |-> hs[i].available_rooms]]

(***************************************************************************)
(* C12, amended.  Two executions that get the same arguments with the same *)
(* random seed fail alike or return the same listings in the same order,   *)
(* equal in every field but the address; the addresses are equal too when  *)
(* Faker's generator is in the same state in both.                         *)
(***************************************************************************)
C12_SameButAddress ==
  request.pending =>
    /\ twinResponse.status = response.status
    /\ twinResponse.error = response.error
    /\ WithoutAddresses(twinResponse.hotels) = WithoutAddresses(response.hotels)
    /\ twinFakeRng = fakeRng => twinResponse = response

\* Both executions have returned listings, two of them of one rating, and
\* the addresses differ from one execution to the other.
C12_Witness ==
  /\ Succeeded
  /\ twinResponse.status = "returned"
  /\ twinFakeRng # fakeRng
  /\ \E i \in DOMAIN response.hotels :
       twinResponse.hotels[i].address # response.hotels[i].address
  /\ \E i, j \in DOMAIN response.hotels :
       i # j /\ response.hotels[i].rating = response.hotels[j].rating

(***************************************************************************)
(* C13.  Calls that overlap are independent: whatever the order in which   *)
(* they arrive, run and are answered, what a call returns has 3 to 8       *)
(* listings sorted by rating with every field in its range and located in  *)
(* the place that call asked for; it is the list that call's own loop      *)
(* appended, reordered; and a call changes nothing of another call.        *)
(***************************************************************************)
ResultProperties(hs, location) ==
  /\ Len(hs) \in 3..8
  /\ \A i \in 1..(Len(hs) - 1) : hs[i].rating >= hs[i + 1].rating
  /\ \A i \in DOMAIN hs :
       /\ hs[i].rating \in (3 * Scale)..(5 * Scale)
       /\ hs[i].price_per_night % Scale = 0
       /\ (hs[i].price_per_night \div Scale) \in TypeRange(hs[i].hotel_type)
       /\ hs[i].available_rooms \in 1..15
       /\ Len(hs[i].amenities) \in 3..6
       /\ \A j \in DOMAIN hs[i].amenities :
            hs[i].amenities[j] \in AmenityCatalog
       /\ hs[i].name[1] = hs[i].hotel_type
       /\ hs[i].location[1] \in NeighborhoodNames
       /\ SubSeq(hs[i].location, 2, 3) = <<", ", location>>

C13_Independent ==
  [][\A c \in Clients :
       /\ returned'[c].status = "returned"
            => ResultProperties(returned'[c].hotels, invocations'[c].location)
       /\ (invocations[c].stage = "received"
             /\ invocations'[c].stage = "handled")
            => /\ \A d \in Clients \ {c} :
                    /\ returned'[d] = returned[d]
                    /\ invocations'[d] = invocations[d]
               /\ returned'[c].status = "returned"
                    => \E appended \in {Generated(invocations[c].location,
                                                  rng, fakeRng)} :
                         IsPermutation(returned'[c].hotels, appended)]_vars

\* The calls of both clients, for different places, have returned listings
\* and neither has been answered.
C13_Witness ==
  /\ \A c \in Clients :
       /\ invocations[c].stage = "handled"
       /\ returned[c].status = "returned"
  /\ invocations["a"].location # invocations["b"].location

(***************************************************************************)
(* C17.  process_linkedin_invitations processes at most 10 invitations:    *)
(* processed_count, which is the number of entries of results, never       *)
(* exceeds 10.                                                             *)
(***************************************************************************)
C17_AtMostTen ==
  /\ processed_count = Len(results)
  /\ processed_count <= 10

(***************************************************************************)
(* C18.  Every processed invitation of a recruiter is decided as ignore,   *)
(* and every processed invitation of a sender with a technical role whose  *)
(* card shows mutual connections is decided as accept.  Recruiter and      *)
(* technical are what the job title says to its reader.                    *)
(***************************************************************************)
RecruiterTitles == {<<"R","e","c","r","u","i","t","e","r">>}

TechnicalTitles ==
  { <<"S","o","f","t","w","a","r","e"," ","E","n","g","i","n","e","e","r">>,
    <<"C","h","r","o","m","e"," ","D","e","v","e","l","o","p","e","r">>,
    <<"D","a","t","a"," ","E","n","g","i","n","e","e","r">> }

C18_DecisionByRole ==
  \A i \in DOMAIN results :
    /\ results[i].job_title \in RecruiterTitles
         => results[i].decision = "ignore"
    /\ (results[i].job_title \in TechnicalTitles
          /\ results[i].mutual_connections)
         => results[i].decision = "accept"

(***************************************************************************)
(* C19.  The graph has a breakpoint before the action node: whenever the   *)
(* action node is the next to run, the run has been interrupted.           *)
(***************************************************************************)
C19_InterruptBeforeAction ==
  next_node = "action" => run_status = "interrupted"

(***************************************************************************)
(* C20.  A step of the agent node leads to the action node if the last     *)
(* message carries tool calls and to the end if it carries none; the run   *)
(* reaches the end by no other step, and is finished only with a last      *)
(* message that carries no tool calls.                                     *)
(***************************************************************************)
LastMessage(state_messages) == state_messages[Len(state_messages)]

C20_RouteByToolCalls ==
  [][/\ (next_node = "agent" /\ messages' # messages)
          => /\ LastMessage(messages').type = "ai"
             /\ next_node' = "action"
                  <=> LastMessage(messages').tool_calls # << >>
             /\ next_node' = "END"
                  <=> LastMessage(messages').tool_calls = << >>
     /\ (next_node # "END" /\ next_node' = "END")
          => /\ next_node = "agent"
             /\ messages' # messages
             /\ LastMessage(messages').tool_calls = << >>
     /\ run_status' = "finished" <=> next_node' = "END"]_vars

\* The run has finished after the model asked for two songs: the last
\* message is its answer and carries no tool call.
C20_Witness ==
  /\ run_status = "finished"
  /\ Len(messages) = 6
  /\ messages[2].tool_calls # << >>
  /\ messages[4].tool_calls # << >>
  /\ messages[6].tool_calls = << >>

(***************************************************************************)
(* C21.  The agent node is the first node that runs: the run starts at     *)
(* agent, and the first message behind the input is the model's.  A step   *)
(* of the action node leads to the agent node, with the run going on, and  *)
(* never to the end or to the action node.                                 *)
(***************************************************************************)
C21_AgentFirstAndAfterAction ==
  [][/\ next_node = "START" /\ next_node' # "START"
          => /\ next_node' = "agent"
             /\ run_status' = "running"
             /\ messages' = <<input_message>>
     /\ Len(messages') >= 2 => messages'[2].type = "ai"
     /\ (next_node = "action" /\ messages' # messages)
          => /\ next_node' = "agent"
             /\ run_status' = "running"
             /\ LastMessage(messages').type = "tool"]_vars

\* The action node has run and the agent node has run behind it.
C21_Witness ==
  /\ Len(messages) = 4
  /\ messages[2].type = "ai"
  /\ messages[3].type = "tool"
  /\ messages[4].type = "ai"
  /\ messages[4].tool_calls # << >>
  /\ next_node = "action"

(***************************************************************************)
(* C22.  A model request is issued with no tools once the history holds    *)
(* limit or more messages of the model that carry tool calls, and with the *)
(* agent's tools before that; and the number of tool calls made in a run   *)
(* never exceeds limit.                                                    *)
(***************************************************************************)
RECURSIVE ToolCallsMade(_)
ToolCallsMade(state_messages) ==
  IF state_messages = << >> THEN 0
  ELSE Len(state_messages[Len(state_messages)].tool_calls)
         + ToolCallsMade(SubSeq(state_messages, 1, Len(state_messages) - 1))

C22_ToolCallLimit ==
  /\ agent_node \in {"tools", "end"}
       => request_tools =
            IF tool_call_count(SubSeq(history, 1, Len(history) - 1)) >= limit
            THEN {}
            ELSE agent_tools
  /\ ToolCallsMade(history) <= limit

(***************************************************************************)
(* C23.  The triage agent is run first and then one weather agent: the     *)
(* Spanish one exactly when the language of the triage result is spanish,  *)
(* the English one otherwise.  No weather agent is run, and no weather is  *)
(* fetched, before the triage agent has returned; main ends with exactly   *)
(* one weather agent run.                                                  *)
(***************************************************************************)
C23_TriageThenOneWeatherAgent ==
  /\ Len(started) <= 2
  /\ started # << >> => started[1] = "triage_agent"
  /\ Len(started) = 2
       => /\ triage_output # NoTriage
          /\ started[2] = "spanish_weather_agent"
               <=> triage_output.language = "spanish"
          /\ started[2] = "english_weather_agent"
               <=> triage_output.language # "spanish"
  /\ weather # << >> => Len(started) = 2
  /\ main_pc = "done" => Len(started) = 2

\* main has ended: the triage said spanish and the Spanish weather agent
\* fetched the weather once.
C23_Witness ==
  /\ main_pc = "done"
  /\ triage_output.language = "spanish"
  /\ started = <<"triage_agent", "spanish_weather_agent">>
  /\ Len(weather) = 1

(***************************************************************************)
(* C24.  The fallback range of the price table is never used: the type of  *)
(* every listing, which is the argument generate_price was called with, is *)
(* one of the four types produced, and the table gives that type a range   *)
(* of its own, not the one it gives an unrecognized type.                  *)
(***************************************************************************)
UsesFallback(hotel_type) == price_ranges(hotel_type) = price_ranges("")

C24_FallbackUnreachable ==
  Succeeded =>
    \A i \in DOMAIN response.hotels :
      /\ response.hotels[i].hotel_type
           \in {"Luxury", "Boutique", "Budget", "Business"}
      /\ ~UsesFallback(response.hotels[i].hotel_type)

\* One result holds listings of all four types.
C24_Witness ==
  /\ Succeeded
  /\ \A hotel_type \in {"Luxury", "Boutique", "Budget", "Business"} :
       \E i \in DOMAIN response.hotels :
         response.hotels[i].hotel_type = hotel_type

(***************************************************************************)
(* C25.  process_linkedin_invitations terminates whatever the page does:   *)
(* in every run the loop is left and the report printed.                   *)
(***************************************************************************)
C25_Terminates == <>(pc = "done")

(***************************************************************************)
(* C26.  check_in is validated in full, pattern and calendar, before       *)
(* check_out is looked at: when each parameter fails on its own, the error *)
(* is the one of check_in, of the kind of the rule check_in fails first;   *)
(* and the range error is raised only when each parameter has passed both  *)
(* rules on its own.                                                       *)
(***************************************************************************)
C26_CheckInValidatedFirst ==
  Answered =>
    /\ (~ValidDate(request.check_in) /\ ~ValidDate(request.check_out))
         => /\ Failed
            /\ response.error.names = <<"check_in">>
            /\ ErrorKind(response.error) =
                 IF IsoPatternMatch(request.check_in)
                 THEN "InvalidDateValue"
                 ELSE "InvalidDateFormat"
    /\ FailedWith("InvalidDateRange")
         => /\ ValidDate(request.check_in)
            /\ ValidDate(request.check_out)

\* Both parameters are malformed, each in its own way, and the error is
\* the one of check_in.
C26_Witness ==
  /\ FailedWith("InvalidDateFormat")
  /\ request.check_in = <<"2","0","2","4","/","0","5","/","1","0">>
  /\ request.check_out = <<"0","5","-","1","0","-","2","0","2","4">>
  /\ NamesAndQuotes("check_in")

=============================================================================
